---- MODULE Spec2Model ----
(***************************************************************************)
(* Model of src/main.py: the document-governance ingestion pipeline.       *)
(*                                                                         *)
(* A watchdog Observer delivers creation events of the drop zone to        *)
(* DocumentDropHandler.on_created on its single dispatch thread; the       *)
(* handler filters, sleeps one second and calls process_new_file, which    *)
(* extracts the text, asks the classification service for                  *)
(* "Category | Summary", creates the category directory and moves the      *)
(* file.                                                                   *)
(*                                                                         *)
(* Strings are sequences of tokens.  A token is a word without blanks,     *)
(* bars or slashes ("Invoice", "Foo"), or one of the characters the code   *)
(* treats specially: " ", "|", "/" (and "_" produced by replace).          *)
(***************************************************************************)
EXTENDS Integers, Sequences, FiniteSets, TLC

\* ------------------------------------------------------------------ bounds
MaxDay   == 1      \* days that may pass

\* Paths of the drop zone at which the environment creates something, each
\* once: the file name's stem and its suffix as a character sequence.
Files == {[stem |-> "a", ext |-> <<".", "p", "d", "f">>],
          [stem |-> "b", ext |-> <<".", "P", "D", "F">>],
          [stem |-> "c", ext |-> <<".", "t", "x", "t">>]}

\* ---------------------------------------------------------- configuration
WATCH_DIR     == <<"dropzone">>
PROCESSED_DIR == <<"organized_docs">>

\* Categories the prompt offers, and the pair returned on any exception.
PromptCategories == {<<"Invoice">>, <<"Contract">>, <<"HR_Policy">>,
                     <<"Technical_Spec">>, <<"Other">>}
FallbackCategory == <<"Unclassified">>
FallbackSummary  == <<"Unknown_Subject">>

\* ------------------------------------------------------------ string model
\* Texts the classification service answers with.
ResponseTexts ==
    { <<>>,                                              \* ""
      <<"Invoice">>,                                     \* "Invoice"
      <<"Invoice", " ", "|", " ", "Foo">>,               \* "Invoice | Foo"
      <<" ", "Invoice", "|", "Foo", " ", "Foo", " ">>,   \* " Invoice|Foo Foo "
      <<"Invoice", " ", "|">>,                           \* "Invoice |"
      <<"|", " ", "Foo">>,                               \* "| Foo"
      <<"Foo", " ", "|", " ", "Foo">>,                   \* "Foo | Foo"
      <<"Invoice", "|", "Foo", "|", "Foo">>,             \* "Invoice|Foo|Foo"
      <<"Foo", "/", "Invoice", "|", "Foo">>,             \* "Foo/Invoice|Foo"
      <<"/", "Foo", "|", "Foo">>,                        \* "/Foo|Foo"
      <<"Invoice", "|", "Foo", "/", "Foo">> }            \* "Invoice|Foo/Foo"

\* What model.generate_content / response.text can do: raise, or give a text.
Responses == {[raises |-> TRUE, text |-> <<>>]}
             \cup {[raises |-> FALSE, text |-> t] : t \in ResponseTexts}
NoResponse == [raises |-> FALSE, text |-> <<"-">>]

RECURSIVE LStrip(_)
LStrip(s) == IF s # <<>> /\ s[1] = " " THEN LStrip(Tail(s)) ELSE s

RECURSIVE RStrip(_)
RStrip(s) == IF s # <<>> /\ s[Len(s)] = " "
             THEN RStrip(SubSeq(s, 1, Len(s) - 1)) ELSE s

\* str.strip()
Strip(s) == RStrip(LStrip(s))

\* Index of the first occurrence of token c in s, 0 when there is none.
Find(s, c) == IF \E i \in 1..Len(s) : s[i] = c
              THEN CHOOSE i \in 1..Len(s) :
                     s[i] = c /\ \A j \in 1..(i - 1) : s[j] # c
              ELSE 0

\* Index of the last occurrence of token c in s, 0 when there is none.
RFind(s, c) == IF \E i \in 1..Len(s) : s[i] = c
               THEN CHOOSE i \in 1..Len(s) :
                      s[i] = c /\ \A j \in (i + 1)..Len(s) : s[j] # c
               ELSE 0

\* str.split(c): every segment between occurrences of c.
RECURSIVE Split(_, _)
Split(s, c) == IF Find(s, c) = 0 THEN <<s>>
               ELSE <<SubSeq(s, 1, Find(s, c) - 1)>>
                    \o Split(SubSeq(s, Find(s, c) + 1, Len(s)), c)

\* str.replace(" ", "_")
ReplaceBlanks(s) == [i \in 1..Len(s) |-> IF s[i] = " " THEN "_" ELSE s[i]]

\* str.lower(): of the characters of the model only P, D, F have a lower case
LowerChar(c) == CASE c = "P" -> "p" [] c = "D" -> "d" [] c = "F" -> "f"
                  [] OTHER -> c
Lower(s) == [i \in 1..Len(s) |-> LowerChar(s[i])]

\* str.endswith
EndsWith(s, suffix) == /\ Len(s) >= Len(suffix)
                       /\ SubSeq(s, Len(s) - Len(suffix) + 1, Len(s)) = suffix

\* -------------------------------------------------------------- path model
\* os.path.join(a, b): an absolute b discards a; no second separator is added.
Join(a, b) == IF b # <<>> /\ b[1] = "/" THEN b
              ELSE IF a = <<>> \/ a[Len(a)] = "/" THEN a \o b
              ELSE a \o <<"/">> \o b

IsAbs(p) == p # <<>> /\ p[1] = "/"

NonEmpty(c) == c # <<>>

\* The file-system object a path text names: its components from the current
\* directory (or from the file-system root when absolute); empty components
\* ("a//b", "a/") name nothing.
NormPath(p) == [abs |-> IsAbs(p), comps |-> SelectSeq(Split(p, "/"), NonEmpty)]

Parent(n) == [abs |-> n.abs,
              comps |-> IF n.comps = <<>> THEN <<>>
                        ELSE SubSeq(n.comps, 1, Len(n.comps) - 1)]

\* Directories present when the module has been imported: the current
\* directory, the file-system root, and the two directories lines 31-32 make.
InitialDirs == {[abs |-> FALSE, comps |-> <<>>],
                [abs |-> TRUE, comps |-> <<>>],
                NormPath(WATCH_DIR), NormPath(PROCESSED_DIR)}

\* time.strftime("%Y%m%d") on day d (0 is the day the process started).
Strftime(d) == <<"20240115", "20240116", "20240117", "20240118">>[d + 1]

\* ------------------------------------------------------ classification
\* analyze_document_with_ai on a given outcome of the service call: the pair
\* returned, and whether the except branch logged "AI API Error".
\* result[1] raises IndexError when the text holds no "|".
analyze_document_with_ai(r) ==
    LET result == Split(Strip(r.text), "|") IN
    IF r.raises \/ Len(result) < 2
    THEN [category |-> FallbackCategory, summary |-> FallbackSummary,
          error |-> TRUE]
    ELSE [category |-> Strip(result[1]),
          summary |-> ReplaceBlanks(Strip(result[2])),
          error |-> FALSE]

\* Lines 89, 93-95 of process_new_file.
target_folder(category) == Join(PROCESSED_DIR, category)

new_filename(d, category, summary) ==
    <<Strftime(d), "_">> \o category \o <<"_">> \o summary \o <<".pdf">>

new_file_path(d, category, summary) ==
    Join(target_folder(category), new_filename(d, category, summary))

\* ------------------------------------------------------------------- state
VARIABLES
    dropzone,   \* per path of WATCH_DIR: the object there, if any
    queue,      \* creation events the Observer has not yet dispatched
    observer,   \* the Observer's dispatch thread: "running" or "dead"
    run,        \* per path: the on_created call handling its event
    dirs,       \* directories of the file system
    archive,    \* files outside WATCH_DIR: where -> the path it was dropped at
    log,        \* document_governance_audit.log
    day,        \* calendar day
    created,    \* paths at which the environment has created its object
    main,       \* the main thread: "watching", "joining", "exited", "aborted"
    api_key     \* whether the environment holds a usable service credential

vars == <<dropzone, queue, observer, run, dirs, archive, log, day, created,
          main, api_key>>

NoFile == [present |-> FALSE, dir |-> FALSE, writing |-> FALSE]


\* Positions of an on_created call.  Waiting: in time.sleep(1).  Extracting ..
\* Moving: inside process_new_file.  Blocked: inside a generate_content call
\* that never returns.  Routed, Skipped, Failed: it returned.  Raised: an
\* exception left it.
InFlight == {"Waiting", "Extracting", "Classifying", "Blocked", "Routing",
             "Moving"}
Terminal == {"Routed", "Skipped", "Failed"}

IdleRun == [stage |-> "Idle", text |-> "unset",
            resp |-> NoResponse, category |-> <<>>, summary |-> <<>>,
            calls |-> <<>>, emitted |-> <<>>, dest |-> <<>>]

\* The path text the Observer reports for f: WATCH_DIR/stem.ext.
SrcPath(f) == Join(WATCH_DIR, <<f.stem>> \o f.ext)

\* The path of the drop zone a path text names.
FileAt(src_path) == CHOOSE f \in Files : SrcPath(f) = src_path

\* os.path.basename(p): what follows the last separator.
Basename(p) == SubSeq(p, RFind(p, "/") + 1, Len(p))

Record(level, kind, filename, detail) ==
    [level |-> level, kind |-> kind, file |-> filename, detail |-> detail]

\* The state once "python main.py" has imported the module and, when lines
\* 31-32 could make the two directories, start_automation has started the
\* Observer and entered its loop.  genai.configure accepts a missing key.
Init == /\ dropzone = [f \in Files |-> NoFile]
        /\ queue = <<>>
        /\ api_key \in BOOLEAN
        /\ \/ main = "watching" /\ observer = "running"
           \/ main = "aborted" /\ observer = "unstarted"
        /\ run = [f \in Files |-> IdleRun]
        /\ dirs = InitialDirs
        /\ archive = <<>>
        /\ log = <<>>
        /\ day = 0
        /\ created = {}

\* ------------------------------------------------------------- environment
\* The process is there to be observed: it was started and has not exited.
ProcessAlive == main \in {"watching", "joining"}

\* The Observer's emitter thread queues events until observer.stop().
EmitterAlive == observer \in {"running", "dead"}

\* A producer creates an object at a free path of the drop zone and may still
\* be writing it (w); the Observer queues the creation event.
Drop(f) ==
    /\ ProcessAlive
    /\ f \notin created
    /\ \E d \in BOOLEAN, w \in BOOLEAN :
          /\ d => ~w
          /\ dropzone' = [dropzone EXCEPT
                 ![f] = [present |-> TRUE, dir |-> d, writing |-> w]]
          /\ queue' = IF EmitterAlive
                       THEN Append(queue, [src_path |-> SrcPath(f),
                                           is_directory |-> d])
                       ELSE queue
    /\ created' = created \cup {f}
    /\ UNCHANGED <<observer, run, dirs, archive, log, day, main, api_key>>

\* The producer of f writes its last byte, however long that took.
ProducerFinishes(f) ==
    /\ ProcessAlive
    /\ dropzone[f].writing
    /\ dropzone' = [dropzone EXCEPT ![f].writing = FALSE]
    /\ UNCHANGED <<queue, observer, run, dirs, archive, log, day, created, main, api_key>>

\* Somebody else removes the object from the drop zone.
Remove(f) ==
    /\ ProcessAlive
    /\ dropzone[f].present
    /\ dropzone' = [dropzone EXCEPT ![f] = NoFile]
    /\ UNCHANGED <<queue, observer, run, dirs, archive, log, day, created, main, api_key>>

Midnight ==
    /\ ProcessAlive
    /\ day < MaxDay
    /\ day' = day + 1
    /\ UNCHANGED <<dropzone, queue, observer, run, dirs, archive, log, created, main, api_key>>

\* ------------------------------------------------------------- watch loop
\* A handler that started a thread for each file would always be idle.
DispatcherIdle_Threaded == TRUE

\* on_created runs on the Observer's one dispatch thread and calls
\* process_new_file itself: the next event is taken only when it has returned.
DispatcherIdle == \A f \in Files : run[f].stage \notin InFlight

\* The filter without lower(): "x.PDF" would be ignored.
Ignored_CaseSensitive(event) ==
    \/ event.is_directory
    \/ ~EndsWith(event.src_path, <<".", "p", "d", "f">>)

\* The filter of on_created (line 111).
Ignored(event) ==
    \/ event.is_directory
    \/ ~EndsWith(Lower(event.src_path), <<".", "p", "d", "f">>)

\* on_created up to the call of time.sleep(1).
OnCreated ==
    /\ observer = "running"
    /\ queue # <<>>
    /\ DispatcherIdle
    /\ queue' = Tail(queue)
    /\ run' = IF Ignored(Head(queue)) THEN run
              ELSE [run EXCEPT ![FileAt(Head(queue).src_path)] =
                       [IdleRun EXCEPT !.stage = "Waiting"]]
    /\ UNCHANGED <<dropzone, observer, dirs, archive, log, day, created, main, api_key>>

\* time.sleep(1) returns, whatever the producer is doing; process_new_file
\* starts and logs the detection (lines 115-116, 77-78).
Wake(f) ==
    /\ run[f].stage = "Waiting"
    /\ LET rec == Record("INFO", "detected", Basename(SrcPath(f)), <<>>) IN
          /\ log' = Append(log, rec)
          /\ run' = [run EXCEPT ![f].stage = "Extracting",
                                ![f].emitted = Append(@, rec)]
    /\ UNCHANGED <<dropzone, queue, observer, dirs, archive, day, created, main, api_key>>

\* ------------------------------------------------------ process_new_file
\* "if text is None" would let an empty text through.
ExtractionFailed_NoneOnly(text) == text = "None"

\* "if not text" (line 82).
ExtractionFailed(text) == text = "None" \/ text = ""

\* What extract_text_from_pdf can return for the object at a path: None when
\* fitz.open raises (always so when nothing, or a directory, is there), else
\* the pages' text, which may be empty.
ExtractResults(path) ==
    IF ~dropzone[path].present \/ dropzone[path].dir THEN {"None"}
    ELSE {"None", "", "text"}

\* Step 1 (lines 81-83, 37-47).
Extract(f) ==
    /\ run[f].stage = "Extracting"
    /\ \E text \in ExtractResults(f) :
          LET recs == IF text = "None"
                      THEN <<Record("ERROR", "read_failed", SrcPath(f), <<>>)>>
                      ELSE <<>>
          IN /\ log' = log \o recs
             /\ run' = [run EXCEPT
                   ![f].text = text,
                   ![f].calls = Append(@, "extract"),
                   ![f].emitted = @ \o recs,
                   ![f].stage = IF ExtractionFailed(text) THEN "Skipped"
                                ELSE "Classifying"]
    /\ UNCHANGED <<dropzone, queue, observer, dirs, archive, day, created, main, api_key>>

\* What the call of line 63 can come back with: without a credential the
\* client raises; with one, the service's answer or an error.
ServiceOutcomes == IF api_key THEN Responses
                   ELSE {[raises |-> TRUE, text |-> <<>>]}

\* Step 2 (line 86, 62-70).  The "AI API Error" record names no file.
Classify(f) ==
    /\ run[f].stage = "Classifying"
    /\ \E r \in ServiceOutcomes :
          LET a == analyze_document_with_ai(r)
              recs == IF a.error
                      THEN <<Record("ERROR", "ai_error", <<>>, <<>>)>>
                      ELSE <<>>
          IN /\ log' = log \o recs
             /\ run' = [run EXCEPT
                   ![f].resp = r,
                   ![f].category = a.category,
                   ![f].summary = a.summary,
                   ![f].calls = Append(@, "classify"),
                   ![f].emitted = @ \o recs,
                   ![f].stage = "Routing"]
    /\ UNCHANGED <<dropzone, queue, observer, dirs, archive, day, created, main, api_key>>

\* Step 2 when the service never answers: line 63 passes no timeout, the
\* call does not return and the dispatch thread stays inside it.
Hang(f) ==
    /\ run[f].stage = "Classifying"
    /\ api_key
    /\ run' = [run EXCEPT ![f].stage = "Blocked",
                          ![f].calls = Append(@, "classify")]
    /\ UNCHANGED <<dropzone, queue, observer, dirs, archive, log, day, created,
                   main, api_key>>

\* Path(n).mkdir(exist_ok=True), no parents=True: raises unless n is a
\* directory already, or can be made in an existing parent.  oserror: the
\* operating system refuses the creation (permissions, full disk).
MkdirRaises(n, oserror) ==
    /\ n \notin dirs
    /\ \/ oserror
       \/ n \in DOMAIN archive
       \/ Parent(n) \notin dirs

\* Step 3, first half (lines 89-90).  The call is outside any try: its
\* exception leaves process_new_file and on_created, and ends the thread.
MakeDir(f) ==
    /\ run[f].stage = "Routing"
    /\ \E oserror \in BOOLEAN :
          LET n == NormPath(target_folder(run[f].category)) IN
          IF MkdirRaises(n, oserror)
          THEN /\ run' = [run EXCEPT ![f].stage = "Raised",
                                     ![f].resp = NoResponse,
                                     ![f].calls = Append(@, "mkdir")]
               /\ observer' = IF observer = "running" THEN "dead"
                              ELSE observer
               /\ dirs' = dirs
          ELSE /\ run' = [run EXCEPT ![f].stage = "Moving",
                                     ![f].resp = NoResponse,
                                     ![f].calls = Append(@, "mkdir")]
               /\ observer' = observer
               /\ dirs' = dirs \cup {n}
    /\ UNCHANGED <<dropzone, queue, archive, log, day, created, main, api_key>>

\* shutil.move(src, dst) raises when the source is gone, when the directory of
\* dst does not exist, or when the operating system refuses.
MoveRaises(path, n, oserror) ==
    \/ oserror
    \/ ~dropzone[path].present
    \/ Parent(n) \notin dirs

\* A move that unlinked the source before the copy had succeeded.
AfterFailedMove_Unlinked(path) == [dropzone EXCEPT ![path] = NoFile]

\* The drop zone after shutil.move raised: the source is where it was.
AfterFailedMove(path) == dropzone

\* The drop zone and the archive after shutil.move returned: the source is
\* renamed onto dst, replacing whatever file was there.
AfterMoveSource(path) == [dropzone EXCEPT ![path] = NoFile]

AfterMoveDest(path, n) == (n :> path) @@ archive

\* Step 3, second half (lines 93-103).
Move(f) ==
    /\ run[f].stage = "Moving"
    /\ \E oserror \in BOOLEAN :
          LET dst == new_file_path(day, run[f].category, run[f].summary)
              n == NormPath(dst)
              ok == Record("INFO", "success", Basename(SrcPath(f)), dst)
              ko == Record("ERROR", "route_failed", Basename(SrcPath(f)), <<>>)
          IN
          IF MoveRaises(f, n, oserror)
          THEN /\ dropzone' = AfterFailedMove(f)
               /\ archive' = archive
               /\ log' = Append(log, ko)
               /\ run' = [run EXCEPT ![f].stage = "Failed",
                                     ![f].calls = Append(@, "move"),
                                     ![f].emitted = Append(@, ko)]
          ELSE /\ dropzone' = AfterMoveSource(f)
               /\ archive' = AfterMoveDest(f, n)
               /\ log' = Append(log, ok)
               /\ run' = [run EXCEPT ![f].stage = "Routed",
                                     ![f].calls = Append(@, "move"),
                                     ![f].emitted = Append(@, ok),
                                     ![f].dest = dst]
    /\ UNCHANGED <<queue, observer, dirs, day, created, main, api_key>>

\* ------------------------------------------------------ start_automation
\* KeyboardInterrupt in the loop of lines 126-128: observer.stop() (line 130);
\* the main thread goes on to observer.join().
Interrupt ==
    /\ main = "watching"
    /\ main' = "joining"
    /\ observer' = IF observer = "running" THEN "stopped" ELSE observer
    /\ UNCHANGED <<dropzone, queue, run, dirs, archive, log, day, created,
                   api_key>>

\* observer.join() (line 132) returns once the dispatch thread has ended: it
\* died of an exception, or the handler it was running has returned.
Exit ==
    /\ main = "joining"
    /\ observer = "dead" \/ DispatcherIdle
    /\ main' = "exited"
    /\ UNCHANGED <<dropzone, queue, observer, run, dirs, archive, log, day,
                   created, api_key>>

Next == \/ \E f \in Files : Drop(f)
        \/ \E f \in Files : ProducerFinishes(f)
        \/ \E f \in Files : Remove(f)
        \/ Midnight
        \/ OnCreated
        \/ \E f \in Files : Wake(f)
        \/ \E f \in Files : Extract(f)
        \/ \E f \in Files : Classify(f)
        \/ \E f \in Files : Hang(f)
        \/ \E f \in Files : MakeDir(f)
        \/ \E f \in Files : Move(f)
        \/ Interrupt
        \/ Exit

Spec == Init /\ [][Next]_vars

\* What the threads guarantee: the dispatch thread goes on with the handler it
\* is in and, while the Observer runs, takes the next event; a call of the
\* service returns or never does; the main thread leaves join() when it can.
\* Nothing is assumed of the environment.
Fairness ==
    /\ WF_vars(OnCreated)
    /\ WF_vars(Exit)
    /\ \A f \in Files :
          /\ WF_vars(Wake(f))
          /\ WF_vars(Extract(f))
          /\ WF_vars(Classify(f) \/ Hang(f))
          /\ WF_vars(MakeDir(f))
          /\ WF_vars(Move(f))

FairSpec == Spec /\ Fairness

\* ================================================================ claims
ClosedCategories == PromptCategories \cup {FallbackCategory}

Started(f) == run[f].stage # "Idle"

\* C1: two runs whose computed destination is identical leave two distinct
\* files in the archive, one per source document; the second move does not
\* replace the file the first one put there.
C1_NoOverwrite ==
    \A f, g \in Files :
        (/\ f # g
         /\ run[f].stage = "Routed" /\ run[g].stage = "Routed"
         /\ run[f].dest = run[g].dest)
        => \E p, q \in DOMAIN archive :
              p # q /\ archive[p] = f /\ archive[q] = g

\* C2: when extraction yields no usable text (None or the empty text) the run
\* ends in Skipped by a step that leaves the drop zone, the directories and
\* the archive as they were, and a Skipped run has called nothing but the
\* extractor: no classification, no directory creation, no move.
C2_ExtractionFailureSkips ==
    [][\A f \in Files :
          /\ (run[f].stage = "Extracting" /\ run'[f].stage # "Extracting"
              /\ run'[f].text \in {"None", ""})
             => /\ run'[f].stage = "Skipped"
                /\ UNCHANGED <<dropzone, dirs, archive>>
          /\ run'[f].stage = "Skipped" => run'[f].calls = <<"extract">>]_vars

C2_Witness ==
    \E f \in Files : /\ run[f].stage = "Skipped"
                     /\ run[f].text = ""
                     /\ dropzone[f].present

\* C3: a response that is malformed or empty (the call raises, the text has
\* no "|", or the part before or after the first "|" is empty once trimmed)
\* makes the classifier return exactly (Unclassified, Unknown_Subject).
C3_Malformed(r) ==
    \/ r.raises
    \/ Find(r.text, "|") = 0
    \/ Strip(SubSeq(r.text, 1, Find(r.text, "|") - 1)) = <<>>
    \/ Strip(SubSeq(r.text, Find(r.text, "|") + 1, Len(r.text))) = <<>>

C3_MalformedFallsBack ==
    \A f \in Files :
        (run[f].stage = "Routing" /\ C3_Malformed(run[f].resp))
        => /\ run[f].category = FallbackCategory
           /\ run[f].summary = FallbackSummary

\* C4: a run that has ended is in one of Routed, Skipped, Failed and has
\* emitted exactly one audit record.
C4_OneAuditRecord ==
    \A f \in Files :
        (Started(f) /\ run[f].stage \notin InFlight)
        => /\ run[f].stage \in Terminal
           /\ Len(run[f].emitted) = 1

\* C5: every directory made under the archive root is archiveRoot/{category}
\* for a category of the closed set, whatever the service answers.
C5_ClosedCategoryDirs ==
    dirs \ InitialDirs
        \subseteq {NormPath(Join(PROCESSED_DIR, c)) : c \in ClosedCategories}

\* C6: a run whose move raised ends in Failed by a step that leaves the drop
\* zone (the source file with it) and the archive exactly as they were, and
\* whose last audit record is the error naming the file.
C6_Reason(f) == Record("ERROR", "route_failed", <<f.stem>> \o f.ext, <<>>)

C6_FailedRouteKeepsSource ==
    [][\A f \in Files :
          (run[f].stage = "Moving" /\ run'[f].stage = "Failed")
          => /\ dropzone' = dropzone
             /\ archive' = archive
             /\ log' = Append(log, C6_Reason(f))
             /\ run'[f].emitted[Len(run'[f].emitted)] = C6_Reason(f)]_vars

C6_Witness ==
    \E f \in Files : /\ run[f].stage = "Failed"
                     /\ dropzone[f].present
                     /\ ~dropzone[f].dir

C8_NonSuccessLogged ==
    \A f \in Files :
        run[f].stage \in {"Skipped", "Failed"}
        => \E i \in 1..Len(run[f].emitted) :
              /\ run[f].emitted[i].level = "ERROR"
              /\ run[f].emitted[i].file # <<>>
              /\ Basename(run[f].emitted[i].file) = <<f.stem>> \o f.ext

\* C9: a file its producer is still writing is not in extraction.
C9_ReadyBeforeExtraction ==
    \A f \in Files : run[f].stage = "Extracting" => ~dropzone[f].writing

\* C10: at most one file is between the handler's start and its terminal
\* state, so at most one classification call is outstanding, however many
\* creation events wait.
C10_BoundedInFlight ==
    Cardinality({f \in Files : run[f].stage \in InFlight}) <= 1

C10_Witness ==
    /\ Len(queue) >= 2
    /\ \E f \in Files : run[f].stage = "Classifying"

\* C11: a classification call the service never answers is abandoned and
\* the run goes on to route the file with (Unclassified, Unknown_Subject).
C11_TimeoutFallsBack ==
    \A f \in Files :
        (run[f].stage = "Blocked")
        ~> (run[f].stage = "Routing" /\ run[f].category = FallbackCategory)

\* C12: a file whose computed destination already exists is routed under
\* the same name with _1 before the extension (the smallest free number when
\* one file is there).
C12_Numbered(d, category, summary) ==
    Join(target_folder(category),
         <<Strftime(d), "_">> \o category \o <<"_">> \o summary
             \o <<"_", "1", ".pdf">>)

C12_CollisionNumbered ==
    [][\A f \in Files :
          (/\ run[f].stage = "Moving" /\ run'[f].stage = "Routed"
           /\ NormPath(new_file_path(day, run[f].category, run[f].summary))
                \in DOMAIN archive)
          => run'[f].dest = C12_Numbered(day, run[f].category,
                                         run[f].summary)]_vars

\* C13: after the interrupt no run starts, the process exits only when no
\* run is in flight, and it does exit.
C13_ShutdownDrains ==
    /\ [][main # "watching"
          => \A f \in Files : run[f].stage \notin InFlight
                              => run'[f].stage \notin InFlight]_vars
    /\ [][main' = "exited"
          => \A f \in Files : run'[f].stage \notin InFlight]_vars
    /\ (main = "joining") ~> (main = "exited")

\* C14: two files routed into the same category directory, which the
\* pipeline had to create, are both in the archive afterwards.
C14_SameNewDirKeepsBoth ==
    \A f, g \in Files :
        (/\ f # g
         /\ run[f].category = run[g].category
         /\ NormPath(target_folder(run[f].category)) \notin InitialDirs
         /\ run[f].stage = "Routed" /\ run[g].stage = "Routed")
        => \E p, q \in DOMAIN archive :
              p # q /\ archive[p] = f /\ archive[q] = g

\* C15: while the Observer runs, a waiting creation event can be taken at
\* once, whatever the run of another file is doing.
C15_WatcherNeverBlocks ==
    (observer = "running" /\ queue # <<>>) => ENABLED OnCreated

\* C16: the handler, given the event of a directory or of a path that does
\* not end in .pdf in some letter case, changes nothing but the queue; given
\* any other event it starts the run of that path.
C16_IsPdf(f) ==
    f.ext \in {<<".", p, d, x>> : p \in {"p", "P"}, d \in {"d", "D"},
                                  x \in {"f", "F"}}

C16_Filter ==
    [][Len(queue') < Len(queue)
       => IF Head(queue).is_directory
             \/ ~C16_IsPdf(FileAt(Head(queue).src_path))
          THEN UNCHANGED <<run, dropzone, dirs, archive, log>>
          ELSE /\ run[FileAt(Head(queue).src_path)].stage = "Idle"
               /\ run'[FileAt(Head(queue).src_path)].stage = "Waiting"
               /\ UNCHANGED <<dropzone, dirs, archive, log>>]_vars

C16_Witness ==
    /\ queue = <<>> /\ observer = "running"
    /\ \E a, b, c \in Files :
          /\ a \in created /\ dropzone[a].dir /\ C16_IsPdf(a)
          /\ run[a].stage = "Idle"
          /\ b.ext = <<".", "P", "D", "F">> /\ run[b].stage = "Waiting"
          /\ c \in created /\ ~C16_IsPdf(c) /\ ~dropzone[c].dir
          /\ run[c].stage = "Idle"

\* C17: with the service credential missing, no pipeline run takes place.
C17_NoRunWithoutCredential ==
    ~api_key => \A f \in Files : run[f].stage = "Idle"

\* C18: whatever the category text, the directory of a routed file and every
\* directory the pipeline makes is a direct child of the archive root.
C18_DirectChild(n) ==
    ~n.abs /\ Len(n.comps) = 2 /\ n.comps[1] = PROCESSED_DIR

C18_CategorySanitized ==
    /\ \A n \in dirs \ InitialDirs : C18_DirectChild(n)
    /\ \A p \in DOMAIN archive : C18_DirectChild(Parent(p))

\* C19: the calls of a run are made in the order extract, classify, mkdir,
\* move, and a run whose extraction succeeded reaches Routing.
C19_StagesInOrder ==
    /\ [](\A f \in Files :
            run[f].calls = SubSeq(<<"extract", "classify", "mkdir", "move">>,
                                  1, Len(run[f].calls)))
    /\ \A f \in Files :
          (run[f].stage = "Classifying") ~> (run[f].stage = "Routing")

\* C20: for every SUCCESS record in the log, the file it names is at the
\* destination it names and no longer in the drop zone.
C20_SuccessIsTruthful ==
    \A i \in 1..Len(log) :
        log[i].kind = "success"
        => /\ NormPath(log[i].detail) \in DOMAIN archive
           /\ Basename(SrcPath(archive[NormPath(log[i].detail)])) = log[i].file
           /\ ~dropzone[archive[NormPath(log[i].detail)]].present

====
